---- MODULE Spec2Model ----
(***************************************************************************)
(* Model of qlm::ThreadPool (include/thread_pool.hpp) and of the           *)
(* qlm::ThreadSafeQueue it owns (include/thread_safe_queue.hpp).           *)
(*                                                                         *)
(* Worker threads run ThreadPool::WorkerThread; client threads call        *)
(* Submit, Stop, Kill, Size, Running and finally the destructor.  Every    *)
(* access to the atomics kill and stop is a step of its own, because       *)
(* Stop(), Kill() and the destructor write them without holding mut.       *)
(* The queue, thread-local objects and (racing only with Size) the plain   *)
(* field thread_count are touched together with the neighbouring step:     *)
(* the queue is only used by the thread that holds mut.  Push and WaitPop  *)
(* hold the queue's own mutex from the step that changes the queue to the  *)
(* step in which they return; Empty() takes and releases it in one step.   *)
(* The queue used on its own, by producers and consumers that call Push    *)
(* and WaitPop with no pool around it, is the specification QSpec.         *)
(***************************************************************************)
EXTENDS Naturals, Sequences, FiniteSets

\* ---------------------------------------------------------------- bounds
MaxThreads == 2      \* largest thread_count a pool is constructed with
NumClients == 2      \* threads calling the public interface
MaxCalls   == 3      \* calls made on the pool before it is destroyed

WorkerIds == 1..MaxThreads
Clients   == 1..NumClients
Tasks     == 1..MaxCalls

\* identity of a thread as owner of the pool mutex; 0 is "unlocked"
WId(w) == w
CId(c) == MaxThreads + c

VARIABLES
    workers,        \* std::vector<std::thread> workers: the indices in use
    task_queue,     \* ThreadSafeQueue::data_queue, head first
    kill,           \* std::atomic_bool kill
    stop,           \* std::atomic_bool stop
    mut,            \* std::mutex mut: owner, 0 when free
    cv,             \* std::condition_variable cv: workers blocked in wait
    qmut,           \* ThreadSafeQueue::mut: owner, 0 when free
    qcv,            \* ThreadSafeQueue::cv: threads blocked in WaitPop
    thread_count,   \* uint32_t thread_count
    wpc,            \* position of each worker in WorkerThread
    wtask,          \* the local `task` of each worker, 0 when empty
    cpc,            \* position of each client in the call it is making
    ctask,          \* the packaged task of the client's Submit, 0 otherwise
    joined,         \* workers the destructor has joined so far
    ncalls,         \* calls begun so far
    hist            \* history of the run, read by the properties only

prog == <<workers, task_queue, kill, stop, mut, cv, thread_count>>
qsync == <<qmut, qcv>>
vars == <<workers, task_queue, kill, stop, mut, cv, qmut, qcv, thread_count,
          wpc, wtask, cpc, ctask, joined, ncalls, hist>>

\* ------------------------------------------------------- shutdown state
\* the tri-state of the design, derived from the two flags
ShutdownOf(s, k) == IF k THEN "Killed" ELSE IF s THEN "Draining" ELSE "Running"
ShutdownState == ShutdownOf(stop, kill)
Rank(st) == IF st = "Running" THEN 0 ELSE IF st = "Draining" THEN 1 ELSE 2

\* ------------------------------------------------------------ the queue
\* ThreadSafeQueue::Push: data_queue.push(new_value)
Push_Front(q, t) == <<t>> \o q
Push(q, t) == Append(q, t)

\* ThreadSafeQueue::Empty
Empty(q) == Len(q) = 0

\* ThreadSafeQueue::WaitPop: value = data_queue.front()
Front(q) == Head(q)

\* ThreadSafeQueue::WaitPop: data_queue.pop()
Pop_Keep(q) == q
Pop(q) == Tail(q)

\* ThreadSafeQueue::Push: cv.notify_one(), the possible sets of threads
\* left blocked on the queue's condition variable
QNotifyOne_Lost(s) == {s}
QNotifyOne(s) == IF s = {} THEN {s} ELSE {s \ {x} : x \in s}

\* ------------------------------------------------------------- history
NoTask == 0
\* what is remembered of a Running() call while it is in progress: the
\* shutdown state when it began, and whether a call had returned false by then
NoRunning == [st |-> "none", afterFalse |-> FALSE]
Count(s, t) == Cardinality({i \in 1..Len(s) : s[i] = t})
Range(s) == {s[i] : i \in 1..Len(s)}
IsPrefix(s, t) == Len(s) <= Len(t) /\ \A i \in 1..Len(s) : s[i] = t[i]

\* the history of a run that begins with a pool of n workers
NoHistory(n) ==
    [ beginState |-> <<>>,   \* task -> shutdown state when its Submit took mut
      beginClosed|-> <<>>,   \* task -> a Stop()/Kill() had returned by then
      outcome    |-> <<>>,   \* task -> "pending" | "threw" | "returned"
      pushOrder  |-> <<>>,   \* tasks in the order Push took them
      pushState  |-> {},     \* shutdown states in which a Push happened
      popOrder   |-> <<>>,   \* tasks in the order WaitPop returned them
      execOrder  |-> <<>>,   \* tasks in the order their bodies finished
      fulfilled  |-> [t \in Tasks |-> 0],  \* times the future was set
      failed     |-> {},     \* tasks whose future holds an exception
      popCalls   |-> 0,      \* WaitPop calls begun on a queue used on its own
      closed     |-> FALSE,  \* some Stop()/Kill() has returned
      sizes      |-> {},     \* values Size() has returned
      runBegin   |-> [c \in Clients |-> NoRunning], \* Running() in progress
      runTrue    |-> {},     \* shutdown states at the begin of calls that returned true
      runFalse   |-> {},     \* shutdown states at the return of calls that returned false
      runRevived |-> FALSE,  \* a call begun after a false return returned true
      size0      |-> n ]   \* thread_count at construction

Init ==
    /\ thread_count \in 0..MaxThreads
    /\ workers = 1..thread_count
    /\ task_queue = <<>>
    /\ kill = FALSE
    /\ stop = FALSE
    /\ mut = 0
    /\ cv = {}
    /\ qmut = 0
    /\ qcv = {}
    /\ wpc = [w \in WorkerIds |-> IF w \in workers THEN "lock" ELSE "none"]
    /\ wtask = [w \in WorkerIds |-> NoTask]
    /\ cpc = [c \in Clients |-> "idle"]
    /\ ctask = [c \in Clients |-> NoTask]
    /\ joined = 0
    /\ ncalls = 0
    /\ hist = NoHistory(thread_count)

\* ------------------------------------------------ ThreadPool::WorkerThread
\* std::unique_lock lk(mut), then the wait predicate's first operand,
\* !task_queue.Empty()
W_Lock(w) ==
    /\ wpc[w] = "lock"
    /\ mut = 0
    /\ mut' = WId(w)
    /\ wpc' = [wpc EXCEPT ![w] = IF ~Empty(task_queue) THEN "chk_kill" ELSE "pred_kill"]
    /\ UNCHANGED <<qsync, workers, task_queue, kill, stop, cv, thread_count,
                   wtask, cpc, ctask, joined, ncalls, hist>>

\* the wait predicate, second operand: kill
W_PredKill(w) ==
    /\ wpc[w] = "pred_kill"
    /\ wpc' = [wpc EXCEPT ![w] = IF kill THEN "chk_kill" ELSE "pred_stop"]
    /\ UNCHANGED <<qsync, prog, wtask, cpc, ctask, joined, ncalls, hist>>

\* the wait predicate, third operand: stop; false sends the worker to wait
W_PredStop(w) ==
    /\ wpc[w] = "pred_stop"
    /\ wpc' = [wpc EXCEPT ![w] = IF stop THEN "chk_kill" ELSE "block"]
    /\ UNCHANGED <<qsync, prog, wtask, cpc, ctask, joined, ncalls, hist>>

\* cv.wait(lk): release mut and block on cv, atomically
W_Block(w) ==
    /\ wpc[w] = "block"
    /\ mut' = 0
    /\ cv' = cv \cup {w}
    /\ wpc' = [wpc EXCEPT ![w] = "waiting"]
    /\ UNCHANGED <<qsync, workers, task_queue, kill, stop, thread_count,
                   wtask, cpc, ctask, joined, ncalls, hist>>

\* a woken worker takes mut again and re-evaluates the predicate from its
\* first operand
W_Wake(w) ==
    /\ wpc[w] = "waiting"
    /\ w \notin cv
    /\ mut = 0
    /\ mut' = WId(w)
    /\ wpc' = [wpc EXCEPT ![w] = IF ~Empty(task_queue) THEN "chk_kill" ELSE "pred_kill"]
    /\ UNCHANGED <<qsync, workers, task_queue, kill, stop, cv, thread_count,
                   wtask, cpc, ctask, joined, ncalls, hist>>

\* std::condition_variable may wake a waiter that nobody notified
W_Spurious(w) ==
    /\ wpc[w] = "waiting"
    /\ w \in cv
    /\ cv' = cv \ {w}
    /\ UNCHANGED <<qsync, workers, task_queue, kill, stop, mut, thread_count,
                   wpc, wtask, cpc, ctask, joined, ncalls, hist>>

\* leaving WorkerThread: lk is released by the return
WorkerReturns(w) ==
    /\ mut' = 0
    /\ wpc' = [wpc EXCEPT ![w] = "terminated"]

\* if (kill || ...): reads kill
W_ChkKill(w) ==
    /\ wpc[w] = "chk_kill"
    /\ IF kill
         THEN WorkerReturns(w)
         ELSE mut' = mut /\ wpc' = [wpc EXCEPT ![w] = "chk_stop"]
    /\ UNCHANGED <<qsync, workers, task_queue, kill, stop, cv, thread_count,
                   wtask, cpc, ctask, joined, ncalls, hist>>

\* (stop && task_queue.Empty()) for the value s read from stop
DrainedOnStop_NoEmpty(s, q) == s
DrainedOnStop_Always(s, q) == TRUE
DrainedOnStop_Never(s, q) == FALSE
DrainedOnStop(s, q) == s /\ Empty(q)

\* if (... || (stop && task_queue.Empty())): reads stop
W_ChkStop(w) ==
    /\ wpc[w] = "chk_stop"
    /\ IF DrainedOnStop(stop, task_queue)
         THEN WorkerReturns(w)
         ELSE mut' = mut /\ wpc' = [wpc EXCEPT ![w] = "pop"]
    /\ UNCHANGED <<qsync, workers, task_queue, kill, stop, cv, thread_count,
                   wtask, cpc, ctask, joined, ncalls, hist>>

\* task_queue.WaitPop(task) up to data_queue.pop(): the worker takes the
\* queue's mutex; on an empty queue it blocks on the queue's own condition
\* variable, which releases the queue's mutex but not mut
W_WaitPop(w) ==
    /\ wpc[w] = "pop"
    /\ qmut = 0
    /\ IF Empty(task_queue)
         THEN /\ wpc' = [wpc EXCEPT ![w] = "qwait"]
              /\ qcv' = qcv \cup {WId(w)}
              /\ UNCHANGED <<qmut, task_queue, wtask, hist>>
         ELSE /\ qmut' = WId(w)
              /\ wtask' = [wtask EXCEPT ![w] = Front(task_queue)]
              /\ task_queue' = Pop(task_queue)
              /\ wpc' = [wpc EXCEPT ![w] = "unlock"]
              /\ hist' = [hist EXCEPT !.popOrder = Append(@, Front(task_queue))]
              /\ qcv' = qcv
    /\ UNCHANGED <<workers, kill, stop, mut, cv, thread_count,
                   cpc, ctask, joined, ncalls>>

\* the owner of the queue's mutex once Push or WaitPop has returned
Released_Never(h) == h
Released(h) == 0

\* WaitPop returns, which releases the queue's mutex; then the end of the
\* block that declares lk: mut is released before task()
W_Unlock_Held(w) ==
    /\ wpc[w] = "unlock"
    /\ qmut' = Released(qmut)
    /\ wpc' = [wpc EXCEPT ![w] = "exec"]
    /\ UNCHANGED <<prog, qcv, wtask, cpc, ctask, joined, ncalls, hist>>

W_Unlock(w) ==
    /\ wpc[w] = "unlock"
    /\ qmut' = Released(qmut)
    /\ mut' = 0
    /\ wpc' = [wpc EXCEPT ![w] = "exec"]
    /\ UNCHANGED <<qcv, workers, task_queue, kill, stop, cv, thread_count,
                   wtask, cpc, ctask, joined, ncalls, hist>>

\* where the worker goes when task() is over: the std::packaged_task stores
\* what its callable throws in the shared state of its future, so task()
\* returns normally either way and the for (;;) loop goes round
AfterTask_Escapes(threw) == IF threw THEN "terminated" ELSE "lock"
AfterTask(threw) == "lock"

\* the futures after the std::packaged_task of task t has made its own
\* shared state ready
SetFuture(f, t) == [f EXCEPT ![t] = @ + 1]

\* a task() that a kill cuts short: the body is dropped and the thread ends
W_TaskReturn_Interrupted(w) ==
    /\ wpc[w] = "exec"
    /\ IF kill
         THEN wpc' = [wpc EXCEPT ![w] = "terminated"] /\ hist' = hist
         ELSE \E threw \in BOOLEAN :
                /\ hist' = [hist EXCEPT !.execOrder = Append(@, wtask[w]),
                                        !.fulfilled = SetFuture(@, wtask[w]),
                                        !.failed = IF threw THEN @ \cup {wtask[w]} ELSE @]
                /\ wpc' = [wpc EXCEPT ![w] = AfterTask(threw)]
    /\ wtask' = [wtask EXCEPT ![w] = NoTask]
    /\ UNCHANGED <<qsync, prog, cpc, ctask, joined, ncalls>>

\* task() returns: the packaged_task has run its body, which returned or
\* threw, and has set its future to the value or to the exception
W_TaskReturn(w) ==
    /\ wpc[w] = "exec"
    /\ \E threw \in BOOLEAN :
          /\ hist' = [hist EXCEPT !.execOrder = Append(@, wtask[w]),
                                  !.fulfilled = SetFuture(@, wtask[w]),
                                  !.failed = IF threw THEN @ \cup {wtask[w]} ELSE @]
          /\ wpc' = [wpc EXCEPT ![w] = AfterTask(threw)]
    /\ wtask' = [wtask EXCEPT ![w] = NoTask]
    /\ UNCHANGED <<qsync, prog, cpc, ctask, joined, ncalls>>

\* the steps of a worker that do not wait for mut
WorkerStep(w) ==
    \/ W_PredKill(w) \/ W_PredStop(w) \/ W_Block(w) \/ W_ChkKill(w)
    \/ W_ChkStop(w) \/ W_WaitPop(w) \/ W_Unlock(w) \/ W_TaskReturn(w)

\* ------------------------------------------------------ ThreadPool::Submit
\* the destructor has begun: the pool object may no longer be used
Tearing == \E c \in Clients : cpc[c] \in {"d_notify", "d_join", "destroyed"}

\* Client threads that are between calls hold no state and are
\* interchangeable: the next call is begun by the first of them.
CanCall(c) ==
    /\ cpc[c] = "idle"
    /\ \A d \in Clients : d < c => cpc[d] # "idle"
    /\ ~Tearing

\* make_shared<packaged_task>(...), task->get_future(), then
\* std::unique_lock lock(mut)
S_Lock(c) ==
    /\ CanCall(c)
    /\ ncalls < MaxCalls
    /\ mut = 0
    /\ mut' = CId(c)
    /\ ncalls' = ncalls + 1
    /\ ctask' = [ctask EXCEPT ![c] = Len(hist.outcome) + 1]
    /\ cpc' = [cpc EXCEPT ![c] = "s_stop"]
    /\ hist' = [hist EXCEPT !.beginState = Append(@, ShutdownState),
                            !.beginClosed = Append(@, hist.closed),
                            !.outcome = Append(@, "pending")]
    /\ UNCHANGED <<qsync, workers, task_queue, kill, stop, cv, thread_count,
                   wpc, wtask, joined>>

\* throw std::runtime_error(...): unwinding releases lock
SubmitThrows(c) ==
    /\ mut' = 0
    /\ cpc' = [cpc EXCEPT ![c] = "idle"]
    /\ ctask' = [ctask EXCEPT ![c] = NoTask]
    /\ hist' = [hist EXCEPT !.outcome[ctask[c]] = "threw"]

\* what Submit makes of the stop flag it reads
SeesStop_Ignored(s) == FALSE
SeesStop(s) == s

\* if (stop || kill): reads stop
S_ChkStop(c) ==
    /\ cpc[c] = "s_stop"
    /\ IF SeesStop(stop)
         THEN SubmitThrows(c)
         ELSE /\ cpc' = [cpc EXCEPT ![c] = "s_kill"]
              /\ UNCHANGED <<qsync, mut, ctask, hist>>
    /\ UNCHANGED <<qsync, workers, task_queue, kill, stop, cv, thread_count,
                   wpc, wtask, joined, ncalls>>

\* what Submit makes of the kill flag it reads
SeesKill_Ignored(k) == FALSE
SeesKill(k) == k

\* if (stop || kill): stop was read false, reads kill
S_ChkKill(c) ==
    /\ cpc[c] = "s_kill"
    /\ IF SeesKill(kill)
         THEN SubmitThrows(c)
         ELSE /\ cpc' = [cpc EXCEPT ![c] = "s_push"]
              /\ UNCHANGED <<qsync, mut, ctask, hist>>
    /\ UNCHANGED <<qsync, workers, task_queue, kill, stop, cv, thread_count,
                   wpc, wtask, joined, ncalls>>

\* task_queue.Push(...) up to its return: the client takes the queue's
\* mutex, pushes, and notify_one on the queue's own condition variable
\* releases a worker blocked inside WaitPop
S_Push(c) ==
    /\ cpc[c] = "s_push"
    /\ qmut = 0
    /\ qmut' = CId(c)
    /\ task_queue' = Push(task_queue, ctask[c])
    /\ \E left \in QNotifyOne(qcv) :
          /\ qcv' = left
          /\ wpc' = [w \in WorkerIds |->
                       IF WId(w) \in qcv \ left THEN "pop" ELSE wpc[w]]
    /\ cpc' = [cpc EXCEPT ![c] = "s_unlock"]
    /\ hist' = [hist EXCEPT !.pushOrder = Append(@, ctask[c]),
                            !.pushState = @ \cup {ShutdownState}]
    /\ UNCHANGED <<workers, kill, stop, mut, cv, thread_count,
                   wtask, ctask, joined, ncalls>>

\* Push returns, which releases the queue's mutex; then the end of the
\* block that declares lock
S_Unlock(c) ==
    /\ cpc[c] = "s_unlock"
    /\ qmut' = Released(qmut)
    /\ mut' = 0
    /\ cpc' = [cpc EXCEPT ![c] = "s_notify"]
    /\ UNCHANGED <<qcv, workers, task_queue, kill, stop, cv, thread_count,
                   wpc, wtask, ctask, joined, ncalls, hist>>

\* cv.notify_one(); return res
S_Notify(c) ==
    /\ cpc[c] = "s_notify"
    /\ IF cv = {} THEN cv' = cv ELSE \E w \in cv : cv' = cv \ {w}
    /\ cpc' = [cpc EXCEPT ![c] = "idle"]
    /\ ctask' = [ctask EXCEPT ![c] = NoTask]
    /\ hist' = [hist EXCEPT !.outcome[ctask[c]] = "returned"]
    /\ UNCHANGED <<qsync, workers, task_queue, kill, stop, mut, thread_count,
                   wpc, wtask, joined, ncalls>>

\* ------------------------------------------- ThreadPool::Stop and ::Kill
\* the flags <<stop, kill>> after Stop()'s store
StopStore_Assign(s, k) == <<TRUE, FALSE>>
StopStore(s, k) == <<TRUE, k>>

\* stop = true; thread_count = 0
St_Set(c) ==
    /\ CanCall(c)
    /\ ncalls < MaxCalls
    /\ stop' = StopStore(stop, kill)[1]
    /\ kill' = StopStore(stop, kill)[2]
    /\ thread_count' = 0
    /\ ncalls' = ncalls + 1
    /\ cpc' = [cpc EXCEPT ![c] = "st_notify"]
    /\ UNCHANGED <<qsync, workers, task_queue, mut, cv, wpc, wtask, ctask, joined, hist>>

\* cv.notify_all(); return
St_Notify(c) ==
    /\ cpc[c] = "st_notify"
    /\ cv' = {}
    /\ cpc' = [cpc EXCEPT ![c] = "idle"]
    /\ hist' = [hist EXCEPT !.closed = TRUE]
    /\ UNCHANGED <<qsync, workers, task_queue, kill, stop, mut, thread_count,
                   wpc, wtask, ctask, joined, ncalls>>

\* kill = true; thread_count = 0
K_Set(c) ==
    /\ CanCall(c)
    /\ ncalls < MaxCalls
    /\ kill' = TRUE
    /\ thread_count' = 0
    /\ ncalls' = ncalls + 1
    /\ cpc' = [cpc EXCEPT ![c] = "k_notify"]
    /\ UNCHANGED <<qsync, workers, task_queue, stop, mut, cv, wpc, wtask, ctask, joined, hist>>

\* cv.notify_all(); return
K_Notify(c) ==
    /\ cpc[c] = "k_notify"
    /\ cv' = {}
    /\ cpc' = [cpc EXCEPT ![c] = "idle"]
    /\ hist' = [hist EXCEPT !.closed = TRUE]
    /\ UNCHANGED <<qsync, workers, task_queue, kill, stop, mut, thread_count,
                   wpc, wtask, ctask, joined, ncalls>>

\* ---------------------------------------- ThreadPool::Size and ::Running
\* return thread_count
Size == thread_count

\* a client calls Size()
CallSize(c) ==
    /\ CanCall(c)
    /\ ncalls < MaxCalls
    /\ ncalls' = ncalls + 1
    /\ hist' = [hist EXCEPT !.sizes = @ \cup {Size}]
    /\ UNCHANGED <<qsync, prog, wpc, wtask, cpc, ctask, joined>>

\* return !stop && !kill: reads stop; true ends the evaluation with false
R_ReadStop(c) ==
    /\ CanCall(c)
    /\ ncalls < MaxCalls
    /\ ncalls' = ncalls + 1
    /\ IF stop
         THEN /\ cpc' = cpc
              /\ hist' = [hist EXCEPT !.runFalse = @ \cup {ShutdownState}]
         ELSE /\ cpc' = [cpc EXCEPT ![c] = "r_kill"]
              /\ hist' = [hist EXCEPT !.runBegin[c] =
                            [st |-> ShutdownState, afterFalse |-> hist.runFalse # {}]]
    /\ UNCHANGED <<qsync, prog, wtask, wpc, ctask, joined>>

\* the value of !kill
NotKill(k) == ~k

\* return !stop && !kill: stop was read false, reads kill
R_ReadKill(c) ==
    /\ cpc[c] = "r_kill"
    /\ cpc' = [cpc EXCEPT ![c] = "idle"]
    /\ hist' = IF NotKill(kill)
                 THEN [hist EXCEPT
                         !.runTrue = @ \cup {hist.runBegin[c].st},
                         !.runRevived = @ \/ hist.runBegin[c].afterFalse,
                         !.runBegin[c] = NoRunning]
                 ELSE [hist EXCEPT
                         !.runFalse = @ \cup {ShutdownState},
                         !.runBegin[c] = NoRunning]
    /\ UNCHANGED <<qsync, prog, wtask, wpc, ctask, joined, ncalls>>

\* ------------------------------------------------ ThreadPool::~ThreadPool
\* stop = true; thread_count = 0.  No other call is in progress when the
\* pool is destroyed
D_Set(c) ==
    /\ CanCall(c)
    /\ \A d \in Clients : cpc[d] = "idle"
    /\ stop' = TRUE
    /\ thread_count' = 0
    /\ cpc' = [cpc EXCEPT ![c] = "d_notify"]
    /\ UNCHANGED <<qsync, workers, task_queue, kill, mut, cv,
                   wpc, wtask, ctask, joined, ncalls, hist>>

\* cv.notify_all()
D_Notify(c) ==
    /\ cpc[c] = "d_notify"
    /\ cv' = {}
    /\ cpc' = [cpc EXCEPT ![c] = "d_join"]
    /\ UNCHANGED <<qsync, workers, task_queue, kill, stop, mut, thread_count,
                   wpc, wtask, ctask, joined, ncalls, hist>>

\* worker.join() for the next worker of the vector: returns once it has
\* left WorkerThread
D_Join(c) ==
    /\ cpc[c] = "d_join"
    /\ joined < Cardinality(workers)
    /\ wpc[joined + 1] = "terminated"
    /\ joined' = joined + 1
    /\ UNCHANGED <<qsync, prog, wpc, wtask, cpc, ctask, ncalls, hist>>

\* the loop over workers is over: the destructor returns
D_Done(c) ==
    /\ cpc[c] = "d_join"
    /\ joined = Cardinality(workers)
    /\ cpc' = [cpc EXCEPT ![c] = "destroyed"]
    /\ UNCHANGED <<qsync, prog, wpc, wtask, ctask, joined, ncalls, hist>>

\* the steps of a call that has begun
ClientStep(c) ==
    \/ S_ChkStop(c) \/ S_ChkKill(c) \/ S_Push(c) \/ S_Unlock(c) \/ S_Notify(c)
    \/ St_Notify(c) \/ K_Notify(c) \/ R_ReadKill(c)
    \/ D_Notify(c) \/ D_Join(c) \/ D_Done(c)

\* a client begins a call
ClientCall(c) ==
    \/ S_Lock(c) \/ St_Set(c) \/ K_Set(c) \/ CallSize(c) \/ R_ReadStop(c) \/ D_Set(c)

Next ==
    \/ \E w \in WorkerIds : W_Lock(w) \/ W_Wake(w) \/ WorkerStep(w) \/ W_Spurious(w)
    \/ \E c \in Clients : ClientCall(c) \/ ClientStep(c)

Spec == Init /\ [][Next]_vars

\* Every thread that can take a step eventually takes it, and a worker
\* waiting for mut gets it if it is free again and again.  Nothing obliges
\* a client to begin a call, nor the condition variable to wake spuriously.
Fairness ==
    /\ \A w \in WorkerIds : WF_vars(WorkerStep(w)) /\ SF_vars(W_Lock(w) \/ W_Wake(w))
    /\ \A c \in Clients : WF_vars(ClientStep(c))

FairSpec == Spec /\ Fairness

\* ================================================= the queue on its own
\* A ThreadSafeQueue with no pool around it: the clients are producers that
\* call Push, the worker threads are consumers that call WaitPop; ncalls
\* counts the Push calls and names the items.  No thread calls TryPop.
QInit ==
    /\ workers = {}
    /\ task_queue = <<>>
    /\ kill = FALSE
    /\ stop = FALSE
    /\ mut = 0
    /\ cv = {}
    /\ qmut = 0
    /\ qcv = {}
    /\ thread_count = 0
    /\ wpc = [w \in WorkerIds |-> "q_idle"]
    /\ wtask = [w \in WorkerIds |-> NoTask]
    /\ cpc = [c \in Clients |-> "q_idle"]
    /\ ctask = [c \in Clients |-> NoTask]
    /\ joined = 0
    /\ ncalls = 0
    /\ hist = NoHistory(0)

\* Push: std::lock_guard lk(mut)
Q_PushLock(c) ==
    /\ cpc[c] = "q_idle"
    /\ ncalls < MaxCalls
    /\ qmut = 0
    /\ qmut' = CId(c)
    /\ ncalls' = ncalls + 1
    /\ ctask' = [ctask EXCEPT ![c] = ncalls + 1]
    /\ cpc' = [cpc EXCEPT ![c] = "q_push"]
    /\ UNCHANGED <<prog, qcv, wpc, wtask, joined, hist>>

\* Push: data_queue.push(...); cv.notify_one(); return
Q_Push(c) ==
    /\ cpc[c] = "q_push"
    /\ task_queue' = Push(task_queue, ctask[c])
    /\ \E left \in QNotifyOne(qcv) : qcv' = left
    /\ qmut' = Released(qmut)
    /\ cpc' = [cpc EXCEPT ![c] = "q_idle"]
    /\ ctask' = [ctask EXCEPT ![c] = NoTask]
    /\ hist' = [hist EXCEPT !.pushOrder = Append(@, ctask[c])]
    /\ UNCHANGED <<workers, kill, stop, mut, cv, thread_count,
                   wpc, wtask, joined, ncalls>>

\* WaitPop: std::unique_lock lk(mut)
Q_WaitPopLock(w) ==
    /\ wpc[w] = "q_idle"
    /\ hist.popCalls < MaxCalls
    /\ qmut = 0
    /\ qmut' = WId(w)
    /\ wpc' = [wpc EXCEPT ![w] = "q_pred"]
    /\ wtask' = [wtask EXCEPT ![w] = NoTask]
    /\ hist' = [hist EXCEPT !.popCalls = @ + 1]
    /\ UNCHANGED <<prog, qcv, cpc, ctask, joined, ncalls>>

\* WaitPop: the predicate of cv.wait under the queue's mutex; on an empty
\* queue the consumer releases the mutex and blocks, atomically; otherwise
\* value = data_queue.front(); data_queue.pop(); return
Q_WaitPopPred(w) ==
    /\ wpc[w] = "q_pred"
    /\ IF Empty(task_queue)
         THEN /\ qmut' = 0
              /\ qcv' = qcv \cup {WId(w)}
              /\ wpc' = [wpc EXCEPT ![w] = "q_wait"]
              /\ UNCHANGED <<task_queue, wtask, hist>>
         ELSE /\ wtask' = [wtask EXCEPT ![w] = Front(task_queue)]
              /\ task_queue' = Pop(task_queue)
              /\ qmut' = Released(qmut)
              /\ wpc' = [wpc EXCEPT ![w] = "q_idle"]
              /\ hist' = [hist EXCEPT !.popOrder = Append(@, Front(task_queue))]
              /\ qcv' = qcv
    /\ UNCHANGED <<workers, kill, stop, mut, cv, thread_count,
                   cpc, ctask, joined, ncalls>>

\* WaitPop: a woken consumer takes the queue's mutex again and re-evaluates
\* the predicate
Q_WaitPopWake(w) ==
    /\ wpc[w] = "q_wait"
    /\ WId(w) \notin qcv
    /\ qmut = 0
    /\ qmut' = WId(w)
    /\ wpc' = [wpc EXCEPT ![w] = "q_pred"]
    /\ UNCHANGED <<prog, qcv, wtask, cpc, ctask, joined, ncalls, hist>>

\* WaitPop: std::condition_variable::wait may wake without a notification
Q_WaitPopSpurious(w) ==
    /\ wpc[w] = "q_wait"
    /\ WId(w) \in qcv
    /\ qcv' = qcv \ {WId(w)}
    /\ UNCHANGED <<prog, qmut, wpc, wtask, cpc, ctask, joined, ncalls, hist>>

QNext ==
    \/ \E c \in Clients : Q_PushLock(c) \/ Q_Push(c)
    \/ \E w \in WorkerIds :
          Q_WaitPopLock(w) \/ Q_WaitPopPred(w) \/ Q_WaitPopWake(w) \/ Q_WaitPopSpurious(w)

QSpec == QInit /\ [][QNext]_vars

\* A thread that owns the queue's mutex goes on, and a woken consumer gets
\* the mutex if it is free again and again.  Nothing obliges a thread to
\* call Push or WaitPop.
QFairness ==
    /\ \A c \in Clients : WF_vars(Q_Push(c))
    /\ \A w \in WorkerIds : WF_vars(Q_WaitPopPred(w)) /\ SF_vars(Q_WaitPopWake(w))

QFairSpec == QSpec /\ QFairness

\* ================================================================ claims
Accepted == Range(hist.pushOrder)
Executed(t) == t \in Range(hist.execOrder)
Holders(t) == {w \in WorkerIds : wtask[w] = t}
Made == 1..Len(hist.outcome)
AllTerminated == \A w \in workers : wpc[w] = "terminated"

\* Every accepted task is at each moment in exactly one place (the queue, one
\* worker's hands, or the list of finished executions) and every other task
\* in none; the future of a task has been set as often as its body has run.
ExactlyOnePlace ==
    \A t \in Tasks :
        /\ Count(task_queue, t) + Cardinality(Holders(t)) + Count(hist.execOrder, t)
              = (IF t \in Accepted THEN 1 ELSE 0)
        /\ hist.fulfilled[t] = Count(hist.execOrder, t)

\* C1: in a pool of at least one worker, an accepted task is never
\* duplicated nor dropped, it is executed at most once, by one worker, its
\* future is set exactly when it is executed, and it is eventually executed
\* unless it sits in the queue of a killed pool.
C1_ExactlyOnce ==
    /\ []ExactlyOnePlace
    /\ \A t \in Tasks :
          (hist.size0 >= 1 /\ t \in Accepted)
             ~> (Executed(t) \/ (kill /\ t \in Range(task_queue)))

C1_Witness ==
    /\ Cardinality(workers) = 2
    /\ Len(hist.execOrder) = 2
    /\ \A t \in Accepted : hist.fulfilled[t] = 1

\* the part of s after its first n elements
Drop(s, n) == [i \in 1..(Len(s) - n) |-> s[i + n]]
Increasing(s) == \A i, j \in 1..Len(s) : i < j => s[i] < s[j]

\* C2: tasks leave the queue in the order Push took them (the pops so far
\* are the first pushes, the queue holds the later pushes in push order), and
\* a pool of one worker executes tasks in the order of their Submit calls
\* (tasks are numbered in the order in which their Submit calls took mut).
C2_Fifo ==
    /\ IsPrefix(hist.popOrder, hist.pushOrder)
    /\ task_queue = Drop(hist.pushOrder, Len(hist.popOrder))
    /\ hist.size0 = 1 =>
          /\ IsPrefix(hist.execOrder, hist.pushOrder)
          /\ Increasing(hist.execOrder)

C2_Witness ==
    /\ hist.size0 = 1
    /\ Len(hist.execOrder) = 2
    /\ Len(task_queue) = 1

\* the client whose Submit is working on task t, if any
Submitting(t) == {c \in Clients : ctask[c] = t}

\* C3: a Submit that begins after some Stop() or Kill() has returned throws:
\* its task is never pushed, the call never reaches notify_one and never
\* returns a future.
C3_SubmitAfterCloseThrows ==
    \A t \in Made :
        hist.beginClosed[t] =>
            /\ t \notin Accepted
            /\ hist.outcome[t] \in {"pending", "threw"}
            /\ \A c \in Submitting(t) : cpc[c] \in {"s_stop", "s_kill"}

C3_Witness ==
    \E t \in Made :
        /\ hist.beginClosed[t]
        /\ hist.outcome[t] = "threw"
        /\ kill /\ ~stop
        /\ task_queue # <<>>

\* C4, as claimed: whenever a task is pushed, the shutdown state is Running.
C4_PushOnlyWhileRunning == hist.pushState \subseteq {"Running"}

\* C5, as claimed: once kill is set no worker pops a task.
C5_NoPopOnceKilled == [][kill => hist.popOrder' = hist.popOrder]_vars

\* C6: with at least one worker, a task that is in the queue when stop is
\* set is eventually executed unless the pool is killed; and a Submit that
\* takes mut once stop is set is not accepted.
C6_DrainOnStop ==
    /\ \A t \in Tasks :
          (hist.size0 >= 1 /\ stop /\ t \in Range(task_queue))
             ~> (Executed(t) \/ kill)
    /\ [](\A t \in Made :
             hist.beginState[t] = "Draining" =>
                 t \notin Accepted /\ hist.outcome[t] # "returned")

C6_Witness ==
    /\ ShutdownState = "Draining"
    /\ hist.closed
    /\ Len(task_queue) >= 1
    /\ \E t \in Made : hist.beginState[t] = "Draining" /\ hist.outcome[t] = "threw"

\* C7, as claimed: once the destructor has set stop and notified, it
\* eventually returns from its joins.
C7_TeardownReturns ==
    (\E c \in Clients : cpc[c] = "d_join") ~> (\E c \in Clients : cpc[c] = "destroyed")

\* C8, as claimed: once a Stop() or Kill() has returned, every worker
\* eventually leaves WorkerThread.
C8_CloseWakesAll == hist.closed ~> AllTerminated

\* C9, as claimed: Size() only ever returns the constructed worker count.
C9_SizeIsConstructedCount == hist.sizes \subseteq {hist.size0}

\* C10: the shutdown state never moves back; Stop() turns Running into
\* Draining and leaves the other states, Kill() yields Killed; a Running()
\* that returns true began in state Running, one that returns false returns
\* in a state other than Running, and a Running() begun after one returned
\* false does not return true.
C10_Monotonic ==
    /\ [][ /\ Rank(ShutdownState') >= Rank(ShutdownState)
           /\ (\E c \in Clients : St_Set(c)) =>
                 ShutdownState' = (IF kill THEN "Killed" ELSE "Draining")
           /\ (\E c \in Clients : K_Set(c)) => ShutdownState' = "Killed" ]_vars
    /\ [](/\ hist.runTrue \subseteq {"Running"}
          /\ "Running" \notin hist.runFalse
          /\ ~hist.runRevived)

C10_Witness ==
    /\ hist.runTrue = {"Running"}
    /\ hist.runFalse = {"Killed"}
    /\ stop /\ kill

\* C11, as claimed: a pool constructed with thread_count = 0 is rejected at
\* construction, so no pool without workers ever accepts a submission.
C11_NoPoolWithoutWorkers == hist.size0 = 0 => hist.pushOrder = <<>>

\* C12: a task whose callable throws leaves its worker in the loop: the
\* step that ends a task takes the worker back to the head of the loop and
\* sets the future of that task and no other, a failure is recorded in the
\* future of the task that failed, executed once, no worker terminates while
\* the pool is Running, and the tasks queued once a task has failed are
\* still executed unless the pool is killed.
C12_FailureStaysLocal ==
    /\ [][\A w \in WorkerIds :
            (wpc[w] = "exec" /\ wpc'[w] # "exec") =>
                /\ wpc'[w] = "lock"
                /\ hist.fulfilled' = [hist.fulfilled EXCEPT ![wtask[w]] = @ + 1]
                /\ hist.failed' \ hist.failed \subseteq {wtask[w]}]_vars
    /\ [](/\ \A t \in hist.failed : Count(hist.execOrder, t) = 1 /\ hist.fulfilled[t] = 1
          /\ ShutdownState = "Running" => \A w \in workers : wpc[w] # "terminated")
    /\ \A t \in Tasks :
          (hist.size0 >= 1 /\ hist.failed # {} /\ t \in Range(task_queue))
             ~> (Executed(t) \/ kill)

C12_Witness ==
    /\ hist.size0 = 1
    /\ Len(hist.execOrder) = 2
    /\ hist.execOrder[1] \in hist.failed
    /\ hist.execOrder[2] \notin hist.failed
    /\ ShutdownState = "Running"

\* C13: a worker that holds a popped task while kill is set does not
\* terminate with it and gives it up only by executing it, which sets its
\* future; the task is eventually executed, and the worker that was
\* executing it terminates afterwards.
C13_KillSparesExecuting ==
    /\ [][\A w \in WorkerIds :
            (kill /\ wtask[w] # NoTask) =>
                /\ wpc'[w] # "terminated"
                /\ wtask'[w] # wtask[w] =>
                      /\ hist.execOrder' = Append(hist.execOrder, wtask[w])
                      /\ hist.fulfilled'[wtask[w]] = 1]_vars
    /\ \A w \in WorkerIds : \A t \in Tasks :
          (kill /\ wtask[w] = t)
             ~> (Executed(t) /\ hist.fulfilled[t] = 1 /\ wpc[w] = "terminated")

C13_Witness ==
    /\ kill /\ ~stop
    /\ \E c \in Clients : cpc[c] = "k_notify"
    /\ \E w \in workers : wpc[w] = "exec" /\ wtask[w] # NoTask
    /\ task_queue # <<>>

\* C14, as claimed: a future is set at most once, as often as the body of
\* its own task has been executed to its end, and the future of a task that
\* is in the queue of a killed pool is never set.
C14_FutureOnlyByOwnExecution ==
    /\ [](\A t \in Tasks :
             /\ hist.fulfilled[t] <= 1
             /\ hist.fulfilled[t] = 1 <=> Executed(t)
             /\ (t \in Range(task_queue) \/ Holders(t) # {}) => hist.fulfilled[t] = 0)
    /\ \A t \in Tasks :
          [](kill /\ t \in Range(task_queue) => [](hist.fulfilled[t] = 0))

\* the positions of a Submit that has taken mut or has released it again
SubmitPcs == {"s_stop", "s_kill", "s_push", "s_unlock", "s_notify"}

\* C16: a worker that is executing a task body does not own mut, so the
\* owner of mut is never inside a task body; and a Submit that has taken mut
\* can take each of its remaining steps at once, whatever the workers are
\* executing: it waits for no task.
C16_NoMutexWhileExecuting ==
    /\ \A w \in WorkerIds : wpc[w] = "exec" => mut # WId(w)
    /\ \A c \in Clients : cpc[c] \in SubmitPcs => ENABLED ClientStep(c)

C16_Witness ==
    \E c \in Clients :
        /\ cpc[c] = "s_unlock"
        /\ mut = CId(c)
        /\ \A w \in workers : wpc[w] = "exec"
        /\ Cardinality(workers) = 2

LiveWorkers == {w \in workers : wpc[w] # "terminated"}

\* C17: the step in which a worker leaves WorkerThread is taken with kill
\* set, or with stop set and the queue empty; while the pool is Running no
\* worker has terminated and the live workers are as many as were
\* constructed.
C17_TerminatesOnlyWhenAllowed ==
    /\ [][\A w \in WorkerIds :
            (wpc[w] # "terminated" /\ wpc'[w] = "terminated") =>
                kill \/ (stop /\ Empty(task_queue))]_vars
    /\ [](ShutdownState = "Running" => Cardinality(LiveWorkers) = hist.size0)

C17_Witness ==
    /\ ShutdownState = "Draining"
    /\ Cardinality(LiveWorkers) = 1
    /\ hist.size0 = 2
    /\ \E w \in LiveWorkers : wpc[w] = "exec"
    /\ task_queue = <<>>

\* C18: a worker that is about to call task_queue.WaitPop owns mut and
\* finds the queue non-empty, and no worker is ever blocked on the queue's
\* condition variable inside WaitPop.
C18_WaitPopNeverBlocks ==
    \A w \in WorkerIds :
        /\ wpc[w] = "pop" => mut = WId(w) /\ ~Empty(task_queue)
        /\ wpc[w] # "qwait"
        /\ WId(w) \notin qcv

C18_Witness ==
    /\ ShutdownState = "Draining"
    /\ hist.closed
    /\ \E w \in workers : wpc[w] = "pop"
    /\ Len(task_queue) = 2

\* C19: in a pool of at least one worker, the task of a Submit that has
\* returned a future is eventually executed unless the pool is killed; and
\* as long as the pool is not killed, a task that is in the queue or about
\* to be pushed by a Submit past its check has a live worker to execute it.
C19_ReturnedIsExecuted ==
    /\ \A t \in Tasks :
          (hist.size0 >= 1 /\ t \in Made /\ hist.outcome[t] = "returned")
             ~> (Executed(t) \/ kill)
    /\ []((/\ hist.size0 >= 1
           /\ ~kill
           /\ \/ task_queue # <<>>
              \/ \E c \in Clients : cpc[c] \in {"s_kill", "s_push", "s_unlock"})
             => LiveWorkers # {})

C19_Witness ==
    /\ ~kill
    /\ Len(hist.pushOrder) = 1
    /\ hist.pushState = {"Draining"}
    /\ hist.execOrder = hist.pushOrder
    /\ hist.outcome[hist.pushOrder[1]] = "returned"
    /\ AllTerminated

\* the workers that are waiting for mut
WaitsForMut == {w \in WorkerIds : wpc[w] = "lock" \/ (wpc[w] = "waiting" /\ w \notin cv)}
\* the threads that are about to take the queue's mutex
WantsQueueMutex ==
    {WId(w) : w \in {v \in WorkerIds : wpc[v] = "pop"}}
       \cup {CId(c) : c \in {d \in Clients : cpc[d] = "s_push"}}

\* C20: the queue's mutex is only ever owned by the thread that owns mut,
\* inside the Push or WaitPop it called after taking mut; so no thread
\* waits for mut while it owns the queue's mutex, and a thread that owns mut
\* and wants the queue's mutex finds it free: no cycle of lock waits.
C20_LockOrder ==
    /\ qmut # 0 =>
          /\ mut = qmut
          /\ \/ \E w \in WorkerIds : qmut = WId(w) /\ wpc[w] = "unlock"
             \/ \E c \in Clients : qmut = CId(c) /\ cpc[c] = "s_unlock"
    /\ \A w \in WaitsForMut : qmut # WId(w)
    /\ WantsQueueMutex # {} => qmut = 0 /\ WantsQueueMutex = {mut}

C20_Witness ==
    \E w, v \in workers :
        /\ wpc[w] = "unlock"
        /\ qmut = WId(w)
        /\ v \in WaitsForMut
        /\ wpc[v] = "waiting"

\* the consumers that are inside WaitPop
InWaitPop == {w \in WorkerIds : wpc[w] \in {"q_pred", "q_wait"}}

\* C15: on a queue used on its own, the step in which WaitPop returns finds
\* the queue non-empty, hands out its head and removes exactly that; the
\* items returned so far are the first items pushed, each once; a consumer
\* blocked in WaitPop while the queue is non-empty returns unless the queue
\* is emptied by others; and a consumer inside WaitPop returns whenever at
\* least as many Push calls have returned as WaitPop calls were begun.
C15_QueueAlone ==
    /\ [][\A w \in WorkerIds :
            (w \in InWaitPop /\ wpc'[w] = "q_idle") =>
                /\ ~Empty(task_queue)
                /\ wtask'[w] = Head(task_queue)
                /\ task_queue' = Tail(task_queue)]_vars
    /\ [](/\ IsPrefix(hist.popOrder, hist.pushOrder)
          /\ task_queue = Drop(hist.pushOrder, Len(hist.popOrder))
          /\ \A t \in Tasks : Count(hist.pushOrder, t) <= 1)
    /\ \A w \in WorkerIds :
          /\ (wpc[w] = "q_wait" /\ ~Empty(task_queue))
                ~> (wpc[w] = "q_idle" \/ Empty(task_queue))
          /\ (w \in InWaitPop /\ Len(hist.pushOrder) >= hist.popCalls)
                ~> (wpc[w] = "q_idle" \/ hist.popCalls > Len(hist.pushOrder))

C15_Witness ==
    \E w, v \in WorkerIds :
        /\ wpc[w] = "q_wait" /\ WId(w) \notin qcv
        /\ wpc[v] = "q_wait" /\ WId(v) \in qcv
        /\ Len(task_queue) = 1
        /\ hist.popOrder # <<>>

====
